---- MODULE Spec2Model ----
(***************************************************************************)
(* Model of gmail-assistant: the Dashboard's run orchestrator              *)
(* (handleProcessSection / handleStop / processOneBatch) and the           *)
(* process-emails edge function (serve handler, fetchEmails,               *)
(* classifyEmail, getAllLabels, getOrCreateLabel, applyLabel).             *)
(*                                                                         *)
(* The specifications share the variables:                                 *)
(*   SpecRun      - one Dashboard; the reply of every batch call is an     *)
(*                  input drawn from BatchReplies.                         *)
(*   SpecRunFair  - the same Dashboard with weak fairness of what a run    *)
(*                  awaits, for the termination of a run.                  *)
(*   SpecBatch    - the edge function process serving the requests of one  *)
(*                  Dashboard, against a model of the provider.            *)
(*   SpecServer   - the same process serving two Dashboards at once.       *)
(*   SpecClassify - classifyEmail on its own, on the replies ReplyTexts.   *)
(* JavaScript runs every handler to completion between two awaits, so an   *)
(* action is the code from one await of a network call (or timer) to the   *)
(* next.                                                                   *)
(***************************************************************************)
EXTENDS Integers, Sequences, FiniteSets, TLC

\* ------------------------------------------------------------------ bounds

\* Batches of one run: the provider returns no cursor with page MaxBatches.
MaxBatches == 3
\* Messages counted in one batch reply received by the Dashboard.
MaxTotal == 2

\* ------------------------------------------------------------- Dashboard

VARIABLES
  processing,       \* useState(false), Dashboard line 485
  processingAll,    \* useState(false), line 486
  result,           \* useState<ProcessingResult | null>(null), line 487
  totalStats,       \* useState<TotalStats | null>(null), line 488
  currentBatch,     \* useState(0), line 489
  error,            \* useState<string | null>(null), line 490
  stopRequested,    \* stopRequestedRef.current, line 491
  currentSection,   \* useState('inbox'), line 509
  pc,               \* where handleProcessSection is suspended
  stats,            \* local stats of handleProcessSection, line 534
  allResults,       \* local allResults, line 533
  nextPageToken,    \* local nextPageToken, line 535
  runState,         \* IDLE / RUNNING / COMPLETED / STOPPED / FAILED: how the run left the loop
  calls,            \* history: the pageToken of every batch call of the run
  replies,          \* history: the batch results received in the run
  failedAt,         \* history: number of the batch call that failed (0: none)
  stopAt,           \* history: where the run was when stop was first requested
  inFlight,         \* history: batch calls issued and not yet returned
  leftover          \* history: the stop flag was set when the run was started

dashVars == <<processing, processingAll, result, totalStats, currentBatch, error,
              stopRequested, currentSection, pc, stats, allResults, nextPageToken,
              runState, calls, replies, failedAt, stopAt, inFlight, leftover>>

\* The edge function process, its clients and the provider.
VARIABLES
  apiKey,           \* ANTHROPIC_API_KEY is configured (line 99)
  labelCache,       \* let labelCache (line 267)
  handler,          \* per client: the locals of its request being served
  response,         \* per client: the last Response returned to it
  run,              \* per client: the run of its Dashboard that sends the requests
  provLabels,       \* provider: the labels of each account
  msgLabels,        \* provider: the label ids on each message
  hist              \* per client: history of the run and of the request

srvVars == <<apiKey, labelCache, handler, response, run, provLabels, msgLabels, hist>>

\* classifyEmail on its own: the reply it last received and what it returned.
VARIABLE classifyCall

Null == [null |-> TRUE]
NoToken == "undefined"
NoError == "null"
Cursors == {"A", "B"}
Sections == {"inbox", "all"}

ZeroStats == [total |-> 0, processed |-> 0, skipped |-> 0, errors |-> 0, batches |-> 0]

NoStop == [phase |-> "none", batch |-> 0]

\* A ProcessingResult as the edge function returns it (lines 416-424); the
\* messages labeled are numbered within their batch.
ResultsOf(n) ==
  [i \in 1..n |-> [email |-> i, label |-> IF i % 2 = 1 THEN "FYI" ELSE "MARKETING"]]

BatchResults ==
  { [total |-> t, processed |-> t - e, skipped |-> 0, errors |-> e,
     results |-> ResultsOf(t - e), nextPageToken |-> c] :
       <<t, e, c>> \in { x \in (0..MaxTotal) \X (0..MaxTotal) \X (Cursors \cup {NoToken}) :
                           x[2] <= x[1] } }

\* What supabase.functions.invoke resolves to: data, an error of the
\* transport (fnError) with or without a message, or an error payload.
BatchReplies ==
  [kind : {"data"}, data : BatchResults]
    \cup [kind : {"fnError"}, message : {"Edge Function returned a non-2xx status code", ""}]
    \cup [kind : {"errorPayload"}, message : {"Failed to fetch emails"}]

\* processOneBatch: throws on fnError and on an error payload, else returns data.
ProcessOneBatch(reply) ==
  CASE reply.kind = "fnError" ->
         [threw |-> TRUE,
          message |-> IF reply.message # "" THEN reply.message ELSE "{}"]
    [] reply.kind = "errorPayload" -> [threw |-> TRUE, message |-> reply.message]
    [] OTHER -> [threw |-> FALSE, value |-> reply.data]

AddBatchOverwriting(st, b) ==
  [total |-> b.total, processed |-> b.processed, skipped |-> b.skipped,
   errors |-> b.errors, batches |-> st.batches]

\* stats.total += ..., stats.processed += ..., (lines 543-546)
AddBatch(st, b) ==
  [total |-> st.total + b.total, processed |-> st.processed + b.processed,
   skipped |-> st.skipped + b.skipped, errors |-> st.errors + b.errors,
   batches |-> st.batches]

\* allResults = [...allResults, ...batchResult.results] (line 547)
AppendResults(all, b) == all \o b.results

\* setResult({...}) (lines 550-556)
ExposedResult(st, all) ==
  [total |-> st.total, processed |-> st.processed, skipped |-> st.skipped,
   errors |-> st.errors, results |-> all]

NextCursorDropped(b) == NoToken

\* nextPageToken = batchResult.nextPageToken (line 559)
NextCursor(b) == b.nextPageToken

StopNeverObserved == FALSE

\* if (stopRequestedRef.current) (line 567)
StopObserved == stopRequested

LoopExitStopFirst(b) ==
  IF StopObserved THEN "STOPPED"
  ELSE IF NextCursor(b) = NoToken THEN "COMPLETED"
  ELSE "CONTINUE"

\* How an iteration ends after batch result b is accumulated (lines 559-573):
\* break when there is no next page, break when stop was requested, else
\* wait and go on.
LoopExit(b) ==
  IF NextCursor(b) = NoToken THEN "COMPLETED"
  ELSE IF StopObserved THEN "STOPPED"
  ELSE "CONTINUE"

CatchAndRetry(msg) ==
  /\ error' = msg
  /\ pc' = "delay"
  /\ UNCHANGED <<processing, processingAll, runState>>

\* catch and finally (lines 575-580)
CatchFinally(msg) ==
  /\ error' = msg
  /\ processing' = FALSE
  /\ processingAll' = FALSE
  /\ pc' = "idle"
  /\ runState' = "FAILED"

BreakWithoutFinally(how) ==
  /\ pc' = "idle"
  /\ runState' = how
  /\ UNCHANGED <<processing, processingAll>>

\* finally after a break out of the loop (lines 577-580)
BreakFinally(how) ==
  /\ processing' = FALSE
  /\ processingAll' = FALSE
  /\ pc' = "idle"
  /\ runState' = how

\* The head of one iteration of while (true): stats.batches++,
\* setCurrentBatch, and the batch call issued (lines 538-541).
StartIteration(st, token) ==
  /\ stats' = [st EXCEPT !.batches = st.batches + 1]
  /\ currentBatch' = st.batches + 1
  /\ calls' = Append(calls, [pageToken |-> token, section |-> currentSection])
  /\ inFlight' = inFlight + 1
  /\ pc' = "batch"

DashInit ==
  /\ processing = FALSE
  /\ processingAll = FALSE
  /\ result = Null
  /\ totalStats = Null
  /\ currentBatch = 0
  /\ error = NoError
  /\ stopRequested = FALSE
  /\ currentSection = "inbox"
  /\ pc = "idle"
  /\ stats = ZeroStats
  /\ allResults = <<>>
  /\ nextPageToken = NoToken
  /\ runState = "IDLE"
  /\ calls = <<>>
  /\ replies = <<>>
  /\ failedAt = 0
  /\ stopAt = NoStop
  /\ inFlight = 0
  /\ leftover = FALSE

NeverDisabled == FALSE

\* disabled={processing} of the two buttons that start a run (lines 614, 621)
Disabled == processing

StopFlagKept == stopRequested

\* stopRequestedRef.current = false (line 516)
StopFlagCleared == FALSE

\* handleProcessSection up to its first await (lines 515-526); the two
\* buttons that call it are disabled while processing (lines 614, 621).
HandleProcessSection(section) ==
  /\ ~Disabled
  /\ stopRequested' = StopFlagCleared
  /\ leftover' = stopRequested
  /\ UNCHANGED inFlight
  /\ processingAll' = TRUE
  /\ processing' = TRUE
  /\ currentSection' = section
  /\ error' = NoError
  /\ result' = Null
  /\ currentBatch' = 0
  /\ totalStats' = ZeroStats
  /\ pc' = "session"
  /\ runState' = "RUNNING"
  /\ stats' = ZeroStats
  /\ allResults' = <<>>
  /\ nextPageToken' = NoToken
  /\ calls' = <<>>
  /\ replies' = <<>>
  /\ failedAt' = 0
  /\ stopAt' = NoStop

\* getSession resolves (lines 526-541): no provider token fails the run,
\* else the locals are set and the first batch call is issued.
SessionReturns(hasToken) ==
  /\ pc = "session"
  /\ IF ~hasToken
       THEN /\ CatchFinally("No Gmail access token. Please sign out and sign in again.")
            /\ UNCHANGED <<stats, currentBatch, calls, allResults, nextPageToken, inFlight>>
       ELSE /\ StartIteration(ZeroStats, NoToken)
            /\ allResults' = <<>>
            /\ nextPageToken' = NoToken
            /\ UNCHANGED <<error, processing, processingAll, runState>>
  /\ UNCHANGED <<result, totalStats, stopRequested, currentSection, replies, failedAt, stopAt,
                 leftover>>

\* The batch call resolves (lines 541-573).
BatchReturns(reply) ==
  /\ pc = "batch"
  /\ reply.kind = "data" /\ stats.batches >= MaxBatches => reply.data.nextPageToken = NoToken
  /\ LET r == ProcessOneBatch(reply) IN
     IF r.threw
       THEN /\ CatchFinally(r.message)
            /\ failedAt' = stats.batches
            /\ UNCHANGED <<stats, allResults, nextPageToken, totalStats, result, replies>>
       ELSE LET b == r.value
                st == AddBatch(stats, b)
                all == AppendResults(allResults, b)
            IN /\ stats' = st
               /\ allResults' = all
               /\ totalStats' = st
               /\ result' = ExposedResult(st, all)
               /\ nextPageToken' = NextCursor(b)
               /\ replies' = Append(replies, b)
               /\ IF LoopExit(b) # "CONTINUE"
                    THEN BreakFinally(LoopExit(b))
                    ELSE /\ pc' = "delay"
                         /\ UNCHANGED <<processing, processingAll, runState>>
               /\ UNCHANGED <<error, failedAt>>
  /\ inFlight' = inFlight - 1
  /\ UNCHANGED <<currentBatch, stopRequested, currentSection, calls, stopAt, leftover>>

\* The inter-batch timer fires (line 573) and the loop starts its next
\* iteration (lines 538-541).
DelayElapsed ==
  /\ pc = "delay"
  /\ StartIteration(stats, nextPageToken)
  /\ UNCHANGED <<processing, processingAll, result, totalStats, error, stopRequested,
                 currentSection, allResults, nextPageToken, runState, replies, failedAt,
                 stopAt, leftover>>

\* handleStop (lines 511-513); the Stop button exists while processing (line 626).
HandleStop ==
  /\ processing
  /\ stopRequested' = TRUE
  /\ stopAt' = IF stopAt = NoStop THEN [phase |-> pc, batch |-> stats.batches] ELSE stopAt
  /\ UNCHANGED <<processing, processingAll, result, totalStats, currentBatch, error,
                 currentSection, pc, stats, allResults, nextPageToken, runState, calls,
                 replies, failedAt, inFlight, leftover>>

\* ------------------------------------------------ claims on the Dashboard

RECURSIVE SumOf(_, _)
SumOf(rs, f) == IF rs = <<>> THEN 0 ELSE rs[1][f] + SumOf(Tail(rs), f)

RECURSIVE ConcatResults(_)
ConcatResults(rs) == IF rs = <<>> THEN <<>> ELSE rs[1].results \o ConcatResults(Tail(rs))

\* The component-wise sum of the batch results rs, with batches = Len(rs).
SumStats(rs) ==
  [total |-> SumOf(rs, "total"), processed |-> SumOf(rs, "processed"),
   skipped |-> SumOf(rs, "skipped"), errors |-> SumOf(rs, "errors"),
   batches |-> Len(rs)]

\* What the Dashboard exposes of the batch results rs.
ExposesExactly(rs) ==
  /\ totalStats = SumStats(rs)
  /\ result = IF rs = <<>> THEN Null
              ELSE [total |-> SumOf(rs, "total"), processed |-> SumOf(rs, "processed"),
                    skipped |-> SumOf(rs, "skipped"), errors |-> SumOf(rs, "errors"),
                    results |-> ConcatResults(rs)]

CursorsOf(rs) == [i \in 1..Len(rs) |-> rs[i].nextPageToken]

TokensOf(cs) == [i \in 1..Len(cs) |-> cs[i].pageToken]

RunEnded == runState \in {"COMPLETED", "STOPPED", "FAILED"}

\* C1: a stop requested after batch 1 has completed and before the batch-2
\* call is issued (the inter-batch delay included) ends the run STOPPED
\* after exactly 1 batch call, with batch 1's counts and results exposed.
C1_StopBeforeBatch2 ==
  (stopAt.phase = "delay" /\ stopAt.batch = 1) =>
     /\ Len(calls) = 1
     /\ runState \in {"RUNNING", "STOPPED"}
     /\ ExposesExactly(SubSeq(replies, 1, 1))

\* C8: batch calls that return cursors A, B, then none: exactly 3 calls, with
\* no cursor, A and B in this order, then COMPLETED with the statistics the
\* sum and the result list the concatenation of the three batch results. (No
\* stop is requested and no call fails in the scripted run.)
C8_ThreeBatchesCompleted ==
  (stopAt = NoStop /\ failedAt = 0 /\ Len(replies) >= 1) =>
     /\ (CursorsOf(replies) = <<"A">> =>
           runState = "RUNNING" /\ TokensOf(calls) \in {<<NoToken>>, <<NoToken, "A">>})
     /\ (CursorsOf(replies) = <<"A", "B">> =>
           runState = "RUNNING"
             /\ TokensOf(calls) \in {<<NoToken, "A">>, <<NoToken, "A", "B">>})
     /\ (CursorsOf(replies) = <<"A", "B", NoToken>> =>
           /\ runState = "COMPLETED"
           /\ pc = "idle"
           /\ TokensOf(calls) = <<NoToken, "A", "B">>
           /\ ExposesExactly(replies)
           /\ totalStats.batches = 3)

C8_Witness ==
  /\ CursorsOf(replies) = <<"A", "B", NoToken>>
  /\ stopAt = NoStop
  /\ runState = "COMPLETED"
  /\ totalStats.total >= 3
  /\ totalStats.errors >= 1
  /\ Len(result.results) >= 2

\* C9: when batch call k itself fails the run ends FAILED with the error
\* message exposed, no further batch call is issued, and the exposed
\* statistics and results are those accumulated from batches 1..k-1.
C9_BatchFailure ==
  failedAt > 0 =>
     /\ runState = "FAILED"
     /\ pc = "idle"
     /\ error \notin {NoError, ""}
     /\ Len(calls) = failedAt
     /\ Len(replies) = failedAt - 1
     /\ ExposesExactly(replies)
     /\ ~processing /\ ~processingAll

C9_Witness ==
  /\ failedAt = 2
  /\ runState = "FAILED"
  /\ totalStats.batches = 1
  /\ Len(result.results) >= 1
  /\ error = "{}"

\* C10: a stop requested while batch k is in flight never interrupts or
\* discards that batch: the run stays in the call until it returns, batch k's
\* counts and results are added, and no batch k+1 is issued.
C10_StopInFlight ==
  stopAt.phase = "batch" =>
     /\ Len(calls) = stopAt.batch
     /\ pc \in {"batch", "idle"}
     /\ (pc = "batch" => runState = "RUNNING" /\ Len(replies) = stopAt.batch - 1)
     /\ (pc = "idle" /\ failedAt = 0 =>
           /\ runState \in {"COMPLETED", "STOPPED"}
           /\ Len(replies) = stopAt.batch
           /\ ExposesExactly(replies))

C10_Witness ==
  /\ stopAt = [phase |-> "batch", batch |-> 2]
  /\ runState = "STOPPED"
  /\ totalStats.batches = 2
  /\ replies[2].processed >= 1

LastCursor == replies[Len(replies)].nextPageToken

\* C11: after every batch the loop checks (a) no next cursor, then (b) stop
\* requested: a run whose last batch returns no cursor ends COMPLETED also
\* when a stop was requested during that batch, and a run ends STOPPED only
\* when its last batch returned a cursor and the stop flag is set.
C11_TerminationOrder ==
  /\ (pc = "idle" /\ failedAt = 0 /\ replies # <<>> /\ LastCursor = NoToken)
       => runState = "COMPLETED"
  /\ runState = "COMPLETED" => (replies # <<>> /\ LastCursor = NoToken /\ failedAt = 0)
  /\ runState = "STOPPED" =>
       (replies # <<>> /\ LastCursor # NoToken /\ stopRequested /\ stopAt # NoStop)
  /\ (pc = "idle" /\ failedAt = 0 /\ replies # <<>> /\ LastCursor # NoToken)
       => (runState = "STOPPED" /\ stopRequested)

C11_Witness ==
  /\ runState = "COMPLETED"
  /\ stopRequested
  /\ stopAt = [phase |-> "batch", batch |-> 2]
  /\ Len(replies) = 2
  /\ LastCursor = NoToken

\* C18: at most one batch call is in flight at any time: call k+1 is in
\* flight only when the replies of calls 1..k have been received and folded
\* into the exposed statistics, and while a run is in progress the flag that
\* disables both start buttons is set.
C18_SingleFlight ==
  /\ inFlight \in {0, 1}
  /\ inFlight = 1 <=> pc = "batch"
  /\ pc = "batch" =>
       /\ Len(calls) = Len(replies) + 1
       /\ stats.batches = Len(calls)
       /\ totalStats = [stats EXCEPT !.batches = Len(replies)]
       /\ result = IF replies = <<>> THEN Null ELSE ExposedResult(stats, allResults)
  /\ pc # "batch" => Len(calls) = Len(replies) + (IF failedAt > 0 THEN 1 ELSE 0)
  /\ pc # "idle" <=> processing
  /\ runState = "RUNNING" <=> processing

C18_Witness ==
  /\ pc = "batch"
  /\ inFlight = 1
  /\ Len(calls) = 3
  /\ Len(replies) = 2
  /\ totalStats.batches = 2
  /\ totalStats.processed >= 2

StatsLeq(a, b) ==
  /\ a.total <= b.total
  /\ a.processed <= b.processed
  /\ a.skipped <= b.skipped
  /\ a.errors <= b.errors
  /\ a.batches <= b.batches

\* C19: at every batch boundary (batch k has completed, call k+1 is not yet
\* issued or the run has ended) the exposed statistics are the component-wise
\* sum of batch results 1..k with batches = k and the exposed result list is
\* their concatenation in batch order; the statistics exposed at the
\* boundary before are never greater than those exposed now.
C19_IncrementalStats ==
  (runState # "IDLE" /\ pc \in {"delay", "idle", "batch"}) =>
     /\ ExposesExactly(replies)
     /\ totalStats.batches = Len(replies)
     /\ replies # <<>> =>
          StatsLeq(SumStats(SubSeq(replies, 1, Len(replies) - 1)), totalStats)

C19_Witness ==
  /\ pc = "delay"
  /\ Len(replies) = 2
  /\ totalStats.batches = 2
  /\ replies[1].processed >= 1
  /\ replies[2].processed >= 1
  /\ replies[1].errors >= 1
  /\ Len(result.results) = replies[1].processed + replies[2].processed

\* C20: starting a run resets the run state before the first batch call:
\* the statistics are zero, the result list and the error are cleared, the
\* cursor is absent and the stop flag is cleared, so a stop requested in an
\* earlier run never stops the new run.
C20_ResetOnStart ==
  /\ pc = "session" =>
       /\ totalStats = ZeroStats
       /\ result = Null
       /\ error = NoError
       /\ currentBatch = 0
       /\ calls = <<>>
  /\ (pc = "batch" /\ Len(calls) = 1) =>
       /\ calls[1].pageToken = NoToken
       /\ totalStats = ZeroStats
       /\ result = Null
       /\ error = NoError
       /\ allResults = <<>>
       /\ nextPageToken = NoToken
       /\ stats = [ZeroStats EXCEPT !.batches = 1]
  /\ stopRequested => stopAt # NoStop
  /\ runState = "STOPPED" => stopAt # NoStop

C20_Witness ==
  /\ leftover
  /\ pc = "delay"
  /\ Len(replies) = 1
  /\ ~stopRequested
  /\ stopAt = NoStop
  /\ runState = "RUNNING"

\* The batch calls started since the first stop request of the run.
FurtherCalls == Len(calls) - stopAt.batch

\* C21: after a stop request made during a run at most one further batch
\* call is started, and one only when the request arrived during the
\* inter-batch delay; the run halts at the next batch boundary: once a batch
\* call has returned after the request, the run is no longer waiting to
\* start another call.
C21_StopHaltsAtBoundary ==
  stopAt # NoStop =>
     /\ FurtherCalls \in {0, 1}
     /\ FurtherCalls = 1 => stopAt.phase = "delay"
     /\ (pc = "delay" => stopAt.phase = "delay" /\ FurtherCalls = 0)
     /\ (pc = "idle" => RunEnded)

\* C24: every started run leaves the RUNNING state in the end (each call
\* returns, and at the latest the batch numbered MaxBatches returns no
\* cursor); in every outcome, completed, stopped or failed, the processing
\* flags are cleared and a new run can be started; a missing provider token
\* fails the run before any batch call.
C24_RunTerminates ==
  /\ [](RunEnded => (~processing /\ ~processingAll /\ pc = "idle" /\ ~Disabled))
  /\ []((pc = "session" /\ calls = <<>>) \/ pc # "session")
  /\ []((runState = "FAILED" /\ failedAt = 0) =>
          (calls = <<>> /\ error = "No Gmail access token. Please sign out and sign in again."))
  /\ (runState = "RUNNING") ~> RunEnded

C24_Witness ==
  /\ leftover
  /\ runState = "FAILED"
  /\ failedAt = 0
  /\ calls = <<>>
  /\ ~processing
  /\ ~processingAll

\* ---------------------------------------------------- the edge function

\* Clients (Dashboards) whose requests the one edge-function process serves.
Clients == {1, 2}
\* Messages of account U.
MaxMsgs == 3
\* SpecBatch, one client: the requests the client sends, and the messages the
\* provider lists for it on all their pages together (the code asks for
\* pages of maxResults=50, line 159).
MaxRequests == 2
MaxListed == 3
\* SpecServer, two clients at once: each sends SharedRequests first batch
\* calls, and is listed SharedListed messages.
SharedRequests == 1
SharedListed == 1

\* type EmailLabel (lines 116-126), in the order of LABEL_MAP
EmailLabel ==
  <<"TO_REPLY", "AWAITING_REPLY", "FYI", "ACTIONED", "NEWSLETTER", "MARKETING", "CALENDAR", "RECEIPT", "NOTIFICATION", "COLD_EMAIL">>

Categories == {EmailLabel[i] : i \in 1..Len(EmailLabel)}

\* const LABEL_MAP (lines 128-139); a name is the sequence of its characters
LABEL_MAP(c) ==
  CASE c = "TO_REPLY" -> <<"T", "o", " ", "R", "e", "p", "l", "y">>
    [] c = "AWAITING_REPLY" -> <<"A", "w", "a", "i", "t", "i", "n", "g", " ", "R", "e", "p", "l", "y">>
    [] c = "FYI" -> <<"F", "Y", "I">>
    [] c = "ACTIONED" -> <<"A", "c", "t", "i", "o", "n", "e", "d">>
    [] c = "NEWSLETTER" -> <<"N", "e", "w", "s", "l", "e", "t", "t", "e", "r">>
    [] c = "MARKETING" -> <<"M", "a", "r", "k", "e", "t", "i", "n", "g">>
    [] c = "CALENDAR" -> <<"C", "a", "l", "e", "n", "d", "a", "r">>
    [] c = "RECEIPT" -> <<"R", "e", "c", "e", "i", "p", "t">>
    [] c = "NOTIFICATION" -> <<"N", "o", "t", "i", "f", "i", "c", "a", "t", "i", "o", "n">>
    [] c = "COLD_EMAIL" -> <<"C", "o", "l", "d", " ", "E", "m", "a", "i", "l">>

UpperLetters ==
  <<"A", "B", "C", "D", "E", "F", "G", "H", "I", "J", "K", "L", "M", "N", "O", "P", "Q", "R", "S", "T", "U", "V", "W", "X", "Y", "Z">>

LowerLetters ==
  <<"a", "b", "c", "d", "e", "f", "g", "h", "i", "j", "k", "l", "m", "n", "o", "p", "q", "r", "s", "t", "u", "v", "w", "x", "y", "z">>

\* String.prototype.toLowerCase on the letters A-Z
LowerChar(ch) ==
  IF \E i \in 1..26 : UpperLetters[i] = ch
    THEN LowerLetters[CHOOSE i \in 1..26 : UpperLetters[i] = ch]
    ELSE ch

ToLowerCase(s) == [i \in 1..Len(s) |-> LowerChar(s[i])]

\* String.prototype.toUpperCase on the letters a-z
UpperChar(ch) ==
  IF \E i \in 1..26 : LowerLetters[i] = ch
    THEN UpperLetters[CHOOSE i \in 1..26 : LowerLetters[i] = ch]
    ELSE ch

ToUpperCase(s) == [i \in 1..Len(s) |-> UpperChar(s[i])]

\* Object.values(LABEL_MAP) (lines 143, 289)
LabelNames == [i \in 1..Len(EmailLabel) |-> LABEL_MAP(EmailLabel[i])]

\* The property keys of LABEL_MAP (lines 129-138) as character sequences
KeyText(c) ==
  CASE c = "TO_REPLY" -> <<"T", "O", "_", "R", "E", "P", "L", "Y">>
    [] c = "AWAITING_REPLY" -> <<"A", "W", "A", "I", "T", "I", "N", "G", "_", "R", "E", "P", "L", "Y">>
    [] c = "FYI" -> <<"F", "Y", "I">>
    [] c = "ACTIONED" -> <<"A", "C", "T", "I", "O", "N", "E", "D">>
    [] c = "NEWSLETTER" -> <<"N", "E", "W", "S", "L", "E", "T", "T", "E", "R">>
    [] c = "MARKETING" -> <<"M", "A", "R", "K", "E", "T", "I", "N", "G">>
    [] c = "CALENDAR" -> <<"C", "A", "L", "E", "N", "D", "A", "R">>
    [] c = "RECEIPT" -> <<"R", "E", "C", "E", "I", "P", "T">>
    [] c = "NOTIFICATION" -> <<"N", "O", "T", "I", "F", "I", "C", "A", "T", "I", "O", "N">>
    [] c = "COLD_EMAIL" -> <<"C", "O", "L", "D", "_", "E", "M", "A", "I", "L">>

Accounts == {"U", "V"}

NoAccessToken == ""

\* Provider: the messages of an account; the odd ones are in the inbox, the
\* ones up to 2 are unread, and none is in spam or trash.
Mailbox(a) == IF a = "U" THEN 1..MaxMsgs ELSE {0}

InInbox(m) == m % 2 = 1

IsUnread(m) == m <= 2

\* Provider: the ids of the system labels INBOX and UNREAD of account a.
InboxId(a) == [acct |-> a, n |-> 1]

UnreadId(a) == [acct |-> a, n |-> 2]

NoId == [acct |-> "", n |-> 0]

\* Provider: the labels an account has before the first request: the system
\* labels INBOX and UNREAD and, when userLabel, a label the user named "fyi"
\* (account U has it, account V has not).
InitialLabels(a, userLabel) ==
  <<[id |-> InboxId(a), name |-> <<"I", "N", "B", "O", "X">>],
    [id |-> UnreadId(a), name |-> <<"U", "N", "R", "E", "A", "D">>]>>
    \o (IF userLabel THEN <<[id |-> [acct |-> a, n |-> 3], name |-> <<"f", "y", "i">>]>>
        ELSE <<>>)

NoExcludeLabels == <<>>

\* excludeLabels (lines 143-145): one -label:"<name>" clause per value of LABEL_MAP
ExcludeLabels == [i \in 1..Len(LabelNames) |-> [op |-> "-label", arg |-> LabelNames[i]]]

BaseQueryAllMail(section) ==
  <<[op |-> "-in", arg |-> <<"s", "p", "a", "m">>],
    [op |-> "-in", arg |-> <<"t", "r", "a", "s", "h">>]>> \o ExcludeLabels

\* baseQuery (lines 148-154), as the sequence of its clauses
BaseQuery(section) ==
  IF section = "inbox"
    THEN <<[op |-> "in", arg |-> <<"i", "n", "b", "o", "x">>]>> \o ExcludeLabels
    ELSE <<[op |-> "-in", arg |-> <<"s", "p", "a", "m">>],
           [op |-> "-in", arg |-> <<"t", "r", "a", "s", "h">>]>> \o ExcludeLabels

\* Provider: whether message m of account a matches clause cl of a query.
MatchesClause(a, m, cl) ==
  CASE cl.op = "in" -> InboxId(a) \in msgLabels[m]
    [] cl.op = "-in" -> TRUE
    [] cl.op = "-label" ->
         ~ \E k \in 1..Len(provLabels[a]) :
              /\ provLabels[a][k].id \in msgLabels[m]
              /\ ToLowerCase(provLabels[a][k].name) = ToLowerCase(cl.arg)

Matching(a, q) ==
  { m \in Mailbox(a) : \A k \in 1..Len(q) : MatchesClause(a, m, q[k]) }

RECURSIVE Ascending(_)
Ascending(S) ==
  IF S = {} THEN <<>>
  ELSE LET x == CHOOSE y \in S : \A z \in S : y <= z IN <<x>> \o Ascending(S \ {x})

\* Provider: the pages the list call may return for query q: up to maxPage
\* matching messages, in the provider's order.
Pages(a, q, maxPage) ==
  { Ascending(S) : S \in { T \in SUBSET Matching(a, q) : Cardinality(T) <= maxPage } }

Min(x, y) == IF x <= y THEN x ELSE y

\* Outcome of one fetch: a success response, a non-success response, or a
\* rejected promise (network failure).
Outcomes == {"ok", "notok", "throws"}

\* data.content[0]?.text of the classification service's reply (line 256):
\* absent, or a text.
Replies ==
  { [present |-> FALSE, text |-> <<>>],
    [present |-> TRUE, text |-> <<>>],
    [present |-> TRUE, text |-> <<" ", "f", "y", "i", "\n">>],
    [present |-> TRUE, text |-> KeyText("MARKETING")],
    [present |-> TRUE, text |-> <<"s", "p", "a", "m">>] }

IsSpace(ch) == ch \in {" ", "\n", "\t"}

\* String.prototype.trim
RECURSIVE TrimStart(_)
TrimStart(s) == IF s # <<>> /\ IsSpace(Head(s)) THEN TrimStart(Tail(s)) ELSE s

RECURSIVE TrimEnd(_)
TrimEnd(s) ==
  IF s # <<>> /\ IsSpace(s[Len(s)]) THEN TrimEnd(SubSeq(s, 1, Len(s) - 1)) ELSE s

Trim(s) == TrimEnd(TrimStart(s))

ClassificationAsIs(reply) ==
  IF reply.present /\ \E c \in Categories : KeyText(c) = reply.text
    THEN CHOOSE c \in Categories : KeyText(c) = reply.text
    ELSE "FYI"

\* classifyEmail after a success response (lines 255-263)
Classification(reply) ==
  IF reply.present /\ \E c \in Categories : KeyText(c) = ToUpperCase(Trim(reply.text))
    THEN CHOOSE c \in Categories : KeyText(c) = ToUpperCase(Trim(reply.text))
    ELSE "FYI"

NoCall == [made |-> FALSE]

\* Replies for classifyEmail on its own, each with how it was built: a word
\* for category c (its key, its key in lower case, its label name, the first
\* two characters of its key), a sentence, the empty text or no text at all,
\* with or without white space before and after.
Words ==
  UNION { { [kind |-> "key", c |-> c, w |-> KeyText(c)],
            [kind |-> "lower", c |-> c, w |-> ToLowerCase(KeyText(c))],
            [kind |-> "name", c |-> c, w |-> LABEL_MAP(c)],
            [kind |-> "partial", c |-> c, w |-> SubSeq(KeyText(c), 1, 2)] } : c \in Categories }
    \cup { [kind |-> "prose", c |-> "FYI",
            w |-> <<"I", " ", "t", "h", "i", "n", "k", " ", "t", "h", "i", "s", " ", "i", "s", " ",
                    "s", "p", "a", "m">>],
           [kind |-> "empty", c |-> "FYI", w |-> <<>>] }

ReplyTexts ==
  { [kind |-> "missing", c |-> "FYI", reply |-> [present |-> FALSE, text |-> <<>>]] }
    \cup { [kind |-> x.kind, c |-> x.c, reply |-> [present |-> TRUE, text |-> pre \o x.w \o post]] :
             x \in Words, pre \in {<<>>, <<" ">>}, post \in {<<>>, <<"\n">>, <<" ", "\t">>} }

NoUrl == [q |-> <<>>, pageToken |-> NoToken]

\* classifyEmail is called with the key configured and the service answers
\* with the reply of input (lines 250-263).
ClassifyEmail(input) ==
  /\ apiKey
  /\ classifyCall' = [made |-> TRUE, input |-> input,
                      returned |-> Classification(input.reply)]

\* No request of the client is being served.
IdleHandler ==
  [pc |-> "idle", accessToken |-> NoAccessToken, url |-> NoUrl, messages |-> <<>>,
   emails |-> <<>>, i |-> 0, results |-> <<>>, errors |-> 0, label |-> "",
   labelId |-> NoId, nextPageToken |-> NoToken, snapshot |-> <<>>, message |-> ""]

NoResponse == [status |-> 0]

NoRun == [token |-> NoAccessToken, section |-> "all", requests |-> 0, listed |-> 0]

NoHist ==
  [listCalls |-> 0, firstLookup |-> "none", created |-> {}, createdAgain |-> {},
   resolved |-> {}, credential |-> TRUE, listOutcome |-> "none",
   H |-> 0, K |-> 0, attempted |-> <<>>, listed |-> <<>>, hydrated |-> <<>>,
   failed |-> <<>>]

CatchWithoutCount(h) == h

\* catch (err) { ...; errors++ } around one email (lines 410-413)
CatchPerEmail(h) == [h EXCEPT !.errors = @ + 1]

\* The for loop moves to its next email and classifyEmail sends its request
\* (lines 398-401, 236), or the loop is over and the handler returns (416-428).
NextEmail(h) ==
  IF h.i < Len(h.emails)
    THEN [h EXCEPT !.i = @ + 1, !.pc = "classify", !.label = "", !.labelId = NoId]
    ELSE [h EXCEPT !.pc = "return200", !.label = "", !.labelId = NoId]

\* fetchEmails has returned (line 390): the for loop starts (lines 393-401).
\* Without ANTHROPIC_API_KEY classifyEmail throws for every email before any
\* request is sent (lines 211-213).
StartLoop(h) ==
  IF h.emails = <<>>
    THEN [h EXCEPT !.pc = "return200", !.i = 0]
    ELSE IF ~apiKey
      THEN [h EXCEPT !.pc = "return200", !.i = Len(h.emails), !.errors = Len(h.emails)]
      ELSE [h EXCEPT !.pc = "classify", !.i = 1]

\* allLabels.find(l => l.name.toLowerCase() === labelName.toLowerCase())
\* (lines 302-304): the index of the first match, 0 when there is none
FindLabel(labels, name) ==
  LET hits == { k \in 1..Len(labels) : ToLowerCase(labels[k].name) = ToLowerCase(name) }
  IN IF hits = {} THEN 0 ELSE CHOOSE k \in hits : \A j \in hits : k <= j

\* getOrCreateLabel once allLabels is there (lines 302-325): the id of the
\* label found, then applyLabel sends its request; or the create request is sent.
Resolve(h, labels) ==
  LET k == FindLabel(labels, LABEL_MAP(h.label))
  IN IF k # 0 THEN [h EXCEPT !.labelId = labels[k].id, !.pc = "apply"]
     ELSE [h EXCEPT !.pc = "create"]

\* getOrCreateLabel calls getAllLabels (lines 301, 269-277): the cache when
\* it is set, else the list-labels request is sent.
GetOrCreateLabel(h) ==
  IF ~labelCache.isNull THEN Resolve(h, labelCache.labels) ELSE [h EXCEPT !.pc = "labels"]

\* History of what the step from h to h2 did, with dH failed detail fetches and
\* dK errors caught: the messages classifyEmail was called for, the
\* list-labels calls of the run (0, 1, or 2 for more than one), the names
\* the run sent a create call for, once and more than once, and the ids its
\* resolutions returned. (credential: the request carried an access token;
\* listOutcome: how the list call of the request ended; failed: the messages
\* whose error the request counted.)
Note(g, h, h2, dH, dK) ==
  [g EXCEPT
     !.H = @ + dH,
     !.K = @ + dK,
     !.attempted = IF h2.pc = "classify" THEN Append(@, h2.emails[h2.i])
                   ELSE IF h.pc \in {"list", "detail"} /\ h2.pc = "return200" THEN h2.emails
                   ELSE @,
     !.listCalls = IF h2.pc = "labels" THEN Min(@ + 1, 2) ELSE @,
     !.created = IF h2.pc = "create" THEN @ \cup {LABEL_MAP(h2.label)} ELSE @,
     !.createdAgain = IF h2.pc = "create" /\ LABEL_MAP(h2.label) \in g.created
                        THEN @ \cup {LABEL_MAP(h2.label)} ELSE @,
     !.resolved = IF h2.pc = "apply" /\ h.pc # "apply"
                    THEN @ \cup {[name |-> LABEL_MAP(h2.label), id |-> h2.labelId]}
                    ELSE @,
     !.listed = h2.messages,
     !.hydrated = h2.emails,
     !.failed = IF dK = 0 THEN @
                ELSE IF h.pc \in {"list", "detail"} THEN h2.emails
                ELSE Append(@, h.emails[h.i])]

\* The body of the Response (lines 416-437)
ResponseOf(h) ==
  IF h.pc = "return200"
    THEN [status |-> 200, total |-> Len(h.emails), processed |-> Len(h.results),
          skipped |-> 0, errors |-> h.errors, results |-> h.results,
          nextPageToken |-> h.nextPageToken]
    ELSE [status |-> 400, error |-> h.message]

\* The request of client c goes on as h2, or returns its Response.
Commit(c, h2, g2) ==
  /\ hist' = [hist EXCEPT ![c] = g2]
  /\ IF h2.pc \in {"return200", "return400"}
       THEN /\ handler' = [handler EXCEPT ![c] = IdleHandler]
            /\ response' = [response EXCEPT ![c] = ResponseOf(h2)]
       ELSE /\ handler' = [handler EXCEPT ![c] = h2]
            /\ UNCHANGED response

\* throw caught by the handler's outer catch (lines 429-437)
Throw400(h, msg) == [h EXCEPT !.pc = "return400", !.message = msg]

ServeUnchecked(accessToken, section, pageToken) ==
  [IdleHandler EXCEPT !.pc = "list", !.accessToken = accessToken,
                      !.url = [q |-> BaseQuery(section), pageToken |-> pageToken]]

\* serve handler up to the list request of fetchEmails (lines 368-390, 141-168)
Serve(accessToken, section, pageToken) ==
  IF accessToken = NoAccessToken
    THEN Throw400(IdleHandler, "Access token is required")
    ELSE [IdleHandler EXCEPT !.pc = "list", !.accessToken = accessToken,
                             !.url = [q |-> BaseQuery(section), pageToken |-> pageToken]]

\* A Dashboard starts a run: its first batch call, without a page token
\* (lines 533-541, 494-496), served up to the handler's first await.
StartRunRequest(c, tok, section, hasToken, maxRequests) ==
  /\ handler[c].pc = "idle"
  /\ run[c].requests < maxRequests
  /\ run' = [run EXCEPT ![c] = [token |-> tok, section |-> section,
                                requests |-> run[c].requests + 1,
                                listed |-> run[c].listed]]
  /\ LET h2 == Serve(IF hasToken THEN tok ELSE NoAccessToken, section, NoToken)
     IN /\ hist' = [hist EXCEPT ![c] = [NoHist EXCEPT !.credential = hasToken]]
        /\ handler' = [handler EXCEPT ![c] = IF h2.pc = "return400" THEN IdleHandler ELSE h2]
        /\ response' = [response EXCEPT
                          ![c] = IF h2.pc = "return400" THEN ResponseOf(h2) ELSE NoResponse]
  /\ UNCHANGED <<apiKey, labelCache, provLabels, msgLabels>>

\* The Dashboard's loop sends the next batch call of its run, with the cursor
\* of the last batch (lines 559-565, 541), served up to the first await.
NextBatchRequest(c, maxRequests) ==
  /\ handler[c].pc = "idle"
  /\ run[c].requests < maxRequests
  /\ response[c].status = 200
  /\ response[c].nextPageToken # NoToken
  /\ run' = [run EXCEPT ![c].requests = @ + 1]
  /\ handler' = [handler EXCEPT
                   ![c] = Serve(run[c].token, run[c].section, response[c].nextPageToken)]
  /\ response' = [response EXCEPT ![c] = NoResponse]
  /\ hist' = [hist EXCEPT ![c] = [@ EXCEPT !.H = 0, !.K = 0, !.attempted = <<>>,
                                           !.listed = <<>>, !.hydrated = <<>>,
                                           !.listOutcome = "none", !.failed = <<>>]]
  /\ UNCHANGED <<apiKey, labelCache, provLabels, msgLabels>>

\* The list request of fetchEmails returns (lines 166-181).
ListReturns(c, outcome, cursor, maxListed) ==
  /\ handler[c].pc = "list"
  /\ \E page \in IF outcome = "ok"
                   THEN Pages(handler[c].accessToken, handler[c].url.q,
                              maxListed - run[c].listed)
                   ELSE {<<>>} :
     LET h == handler[c]
         h2 == IF outcome # "ok"
                 THEN Throw400(h, IF outcome = "notok" THEN "Failed to fetch emails"
                                  ELSE "fetch failed")
                 ELSE LET h1 == [h EXCEPT !.messages = page, !.nextPageToken = cursor,
                                          !.url = NoUrl]
                      IN IF page = <<>> THEN StartLoop(h1)
                         ELSE [h1 EXCEPT !.pc = "detail", !.i = 1]
     IN /\ run' = [run EXCEPT ![c].listed = @ + Len(page)]
        /\ Commit(c, h2, Note([hist[c] EXCEPT !.listOutcome = outcome], h, h2, 0,
                              IF h2.pc = "return200" THEN h2.errors ELSE 0))
  /\ UNCHANGED <<apiKey, labelCache, provLabels, msgLabels>>

\* What the detail request of one message does to the handler (lines 181-205):
\* a non-success response skips the message, a rejected fetch is not caught
\* in fetchEmails and ends the request in the handler's catch.
Hydrate(h, outcome) ==
  CASE outcome = "ok" -> [h EXCEPT !.emails = Append(@, h.messages[h.i])]
    [] outcome = "notok" -> h
    [] OTHER -> Throw400(h, "fetch failed")

\* The detail request of message i returns (lines 180-207, 390-401).
DetailReturns(c, outcome) ==
  /\ handler[c].pc = "detail"
  /\ LET h == handler[c]
         h1 == Hydrate(h, outcome)
         h2 == IF h1.pc = "return400" THEN h1
               ELSE IF h1.i < Len(h1.messages) THEN [h1 EXCEPT !.i = @ + 1]
               ELSE StartLoop(h1)
     IN Commit(c, h2, Note(hist[c], h, h2, IF outcome # "ok" THEN 1 ELSE 0,
                           IF h2.pc = "return200" THEN h2.errors ELSE 0))
  /\ UNCHANGED <<apiKey, labelCache, run, provLabels, msgLabels>>

\* The classification request returns (lines 250-263) and getOrCreateLabel
\* starts (lines 404, 300-325).
ClassifyReturns(c, outcome, reply) ==
  /\ handler[c].pc = "classify"
  /\ LET h == handler[c]
         h2 == IF outcome # "ok" THEN NextEmail(CatchPerEmail(h))
               ELSE GetOrCreateLabel([h EXCEPT !.label = Classification(reply)])
         g == [hist[c] EXCEPT
                 !.firstLookup = IF outcome = "ok" /\ @ = "none"
                                   THEN (IF labelCache.isNull THEN "fetched" ELSE "cached")
                                   ELSE @]
     IN Commit(c, h2, Note(g, h, h2, 0, IF outcome # "ok" THEN 1 ELSE 0))
  /\ UNCHANGED <<apiKey, labelCache, run, provLabels, msgLabels>>

\* Provider: the list-labels request of getAllLabels (lines 272-277) is
\* answered with the labels the account has now.
LabelsServed(c) ==
  /\ handler[c].pc = "labels"
  /\ handler' = [handler EXCEPT
                   ![c] = [handler[c] EXCEPT
                             !.pc = "labelsReply",
                             !.snapshot = provLabels[handler[c].accessToken]]]
  /\ UNCHANGED <<apiKey, labelCache, response, run, provLabels, msgLabels, hist>>

\* labelCache = data.labels || [] (line 284)
CacheSet(labels) == [isNull |-> FALSE, labels |-> labels]

\* The list-labels response arrives (lines 279-285, 302-325).
LabelsReturn(c, outcome) ==
  /\ handler[c].pc = "labelsReply"
  /\ LET h == handler[c]
         h2 == IF outcome # "ok" THEN NextEmail(CatchPerEmail([h EXCEPT !.snapshot = <<>>]))
               ELSE Resolve([h EXCEPT !.snapshot = <<>>], h.snapshot)
     IN /\ labelCache' = IF outcome = "ok" THEN CacheSet(h.snapshot) ELSE labelCache
        /\ Commit(c, h2, Note(hist[c], h, h2, 0, IF outcome # "ok" THEN 1 ELSE 0))
  /\ UNCHANGED <<apiKey, run, provLabels, msgLabels>>

\* if (labelCache) labelCache.push(...) (lines 335-337)
CachePush(cache, l) ==
  IF cache.isNull THEN cache ELSE [cache EXCEPT !.labels = Append(@, l)]

\* Provider: the label a create request adds to account a.
NewLabel(a, name) == [id |-> [acct |-> a, n |-> Len(provLabels[a]) + 1], name |-> name]

\* The create-label request returns (lines 327-339, 407).
CreateReturns(c, outcome) ==
  /\ handler[c].pc = "create"
  /\ LET h == handler[c]
         a == h.accessToken
         l == NewLabel(a, LABEL_MAP(h.label))
         h2 == IF outcome # "ok" THEN NextEmail(CatchPerEmail(h))
               ELSE [h EXCEPT !.labelId = l.id, !.pc = "apply"]
     IN /\ provLabels' = IF outcome = "ok" THEN [provLabels EXCEPT ![a] = Append(@, l)]
                         ELSE provLabels
        /\ labelCache' = IF outcome = "ok" THEN CachePush(labelCache, l) ELSE labelCache
        /\ Commit(c, h2, Note(hist[c], h, h2, 0, IF outcome # "ok" THEN 1 ELSE 0))
  /\ UNCHANGED <<apiKey, run, msgLabels>>

\* Provider: the label ids of account a.
LabelIds(a) == { provLabels[a][k].id : k \in 1..Len(provLabels[a]) }

ModifyAndArchive(labelId) ==
  [addLabelIds |-> {labelId}, removeLabelIds |-> {InboxId(labelId.acct)}]

\* body of the modify request: addLabelIds: [labelId] (lines 355-358)
ModifyBody(labelId) == [addLabelIds |-> {labelId}, removeLabelIds |-> {}]

\* Provider: the account that holds message m.
Owner(m) == CHOOSE a \in Accounts : m \in Mailbox(a)

\* Provider: a label id names a label within the account of the access token
\* it is sent with: the id of a label of another account is read as the id
\* with the same number in account a.
IdIn(a, id) == [acct |-> a, n |-> id.n]

\* Provider: the modify body as account a reads it.
BodyIn(a, body) ==
  [addLabelIds |-> { IdIn(a, id) : id \in body.addLabelIds },
   removeLabelIds |-> { IdIn(a, id) : id \in body.removeLabelIds }]

\* Provider: messages.modify
Modified(labels, body) == (labels \cup body.addLabelIds) \ body.removeLabelIds

\* The modify request of applyLabel returns (lines 362-365, 409-414); the
\* provider refuses a label id that names no label of the account.
ApplyReturns(c, outcome) ==
  /\ handler[c].pc = "apply"
  /\ LET h == handler[c]
         m == h.emails[h.i]
         h2 == IF outcome # "ok" THEN NextEmail(CatchPerEmail(h))
               ELSE NextEmail([h EXCEPT !.results = Append(@, [email |-> m, label |-> h.label])])
         body == BodyIn(h.accessToken, ModifyBody(h.labelId))
     IN /\ outcome = "ok" => body.addLabelIds \subseteq LabelIds(h.accessToken)
        /\ msgLabels' = IF outcome = "ok"
                          THEN [msgLabels EXCEPT ![m] = Modified(@, body)]
                          ELSE msgLabels
        /\ Commit(c, h2, Note(hist[c], h, h2, 0, IF outcome # "ok" THEN 1 ELSE 0))
  /\ UNCHANGED <<apiKey, labelCache, run, provLabels>>

AllMsgs == UNION { Mailbox(a) : a \in Accounts }

\* The cursors the provider returns with a page.
PageCursors == {NoToken, "A"}

SrvInit ==
  /\ apiKey \in BOOLEAN
  /\ labelCache = [isNull |-> TRUE, labels |-> <<>>]
  /\ handler = [c \in Clients |-> IdleHandler]
  /\ response = [c \in Clients |-> NoResponse]
  /\ run = [c \in Clients |-> NoRun]
  /\ provLabels = [a \in Accounts |-> InitialLabels(a, a = "U")]
  /\ msgLabels = [m \in AllMsgs |->
                    (IF InInbox(m) THEN {InboxId(Owner(m))} ELSE {})
                      \cup (IF IsUnread(m) THEN {UnreadId(Owner(m))} ELSE {})]
  /\ hist = [c \in Clients |-> NoHist]

\* ------------------------------------------------------- specifications

vars == <<dashVars, srvVars, classifyCall>>

Init == DashInit /\ SrvInit /\ classifyCall = NoCall

RunNext ==
  \/ (\E section \in Sections : HandleProcessSection(section)) /\ UNCHANGED <<srvVars, classifyCall>>
  \/ (\E hasToken \in BOOLEAN : SessionReturns(hasToken)) /\ UNCHANGED <<srvVars, classifyCall>>
  \/ (\E reply \in BatchReplies : BatchReturns(reply)) /\ UNCHANGED <<srvVars, classifyCall>>
  \/ DelayElapsed /\ UNCHANGED <<srvVars, classifyCall>>
  \/ HandleStop /\ UNCHANGED <<srvVars, classifyCall>>

\* The state of the edge function is not read by the Dashboard and stays as
\* it starts, with the key configured.
RunInit == Init /\ apiKey = TRUE

\* One Dashboard and the replies of its batch calls.
SpecRun == RunInit /\ [][RunNext]_vars

\* Messages in one batch result of the runs whose termination is checked:
\* the loop's way depends on the kind of a reply and on its cursor, never on
\* its counts.
MaxFairTotal == 1

FairReplies == { r \in BatchReplies : r.kind = "data" => r.data.total <= MaxFairTotal }

\* What the run awaits comes: getSession resolves (line 526), the batch call
\* returns (line 541) and the timer of the delay fires (line 573).
SessionResolves ==
  (\E hasToken \in BOOLEAN : SessionReturns(hasToken)) /\ UNCHANGED <<srvVars, classifyCall>>

BatchCallReturns ==
  (\E reply \in FairReplies : BatchReturns(reply)) /\ UNCHANGED <<srvVars, classifyCall>>

TimerFires == DelayElapsed /\ UNCHANGED <<srvVars, classifyCall>>

RunFairNext ==
  \/ (\E section \in Sections : HandleProcessSection(section)) /\ UNCHANGED <<srvVars, classifyCall>>
  \/ SessionResolves
  \/ BatchCallReturns
  \/ TimerFires
  \/ HandleStop /\ UNCHANGED <<srvVars, classifyCall>>

\* The Dashboard when every promise the run awaits is settled in the end; the
\* clicks on the buttons are left to the user.
SpecRunFair ==
  /\ RunInit
  /\ [][RunFairNext]_vars
  /\ WF_vars(SessionResolves)
  /\ WF_vars(BatchCallReturns)
  /\ WF_vars(TimerFires)

BatchNext ==
  \/ (\E tok \in Accounts, section \in Sections, hasToken \in BOOLEAN :
        StartRunRequest(1, tok, section, hasToken, MaxRequests)) /\ UNCHANGED <<dashVars, classifyCall>>
  \/ NextBatchRequest(1, MaxRequests) /\ UNCHANGED <<dashVars, classifyCall>>
  \/ (\E outcome \in Outcomes, cursor \in PageCursors :
        ListReturns(1, outcome, cursor, MaxListed)) /\ UNCHANGED <<dashVars, classifyCall>>
  \/ (\E outcome \in Outcomes : DetailReturns(1, outcome)) /\ UNCHANGED <<dashVars, classifyCall>>
  \/ (\E outcome \in Outcomes, reply \in Replies : ClassifyReturns(1, outcome, reply))
       /\ UNCHANGED <<dashVars, classifyCall>>
  \/ LabelsServed(1) /\ UNCHANGED <<dashVars, classifyCall>>
  \/ (\E outcome \in Outcomes : LabelsReturn(1, outcome)) /\ UNCHANGED <<dashVars, classifyCall>>
  \/ (\E outcome \in Outcomes : CreateReturns(1, outcome)) /\ UNCHANGED <<dashVars, classifyCall>>
  \/ (\E outcome \in Outcomes : ApplyReturns(1, outcome)) /\ UNCHANGED <<dashVars, classifyCall>>

\* The edge function process serving the requests of one client, one request
\* at a time, as one Dashboard sends them.
SpecBatch == Init /\ [][BatchNext]_vars

ServerNext ==
  \/ (\E c \in Clients, tok \in Accounts, section \in Sections, hasToken \in BOOLEAN :
        StartRunRequest(c, tok, section, hasToken, SharedRequests)) /\ UNCHANGED <<dashVars, classifyCall>>
  \/ (\E c \in Clients, outcome \in Outcomes, cursor \in PageCursors :
        ListReturns(c, outcome, cursor, SharedListed)) /\ UNCHANGED <<dashVars, classifyCall>>
  \/ (\E c \in Clients, outcome \in Outcomes : DetailReturns(c, outcome))
       /\ UNCHANGED <<dashVars, classifyCall>>
  \/ (\E c \in Clients, outcome \in Outcomes, reply \in Replies :
        ClassifyReturns(c, outcome, reply)) /\ UNCHANGED <<dashVars, classifyCall>>
  \/ (\E c \in Clients : LabelsServed(c)) /\ UNCHANGED <<dashVars, classifyCall>>
  \/ (\E c \in Clients, outcome \in Outcomes : LabelsReturn(c, outcome))
       /\ UNCHANGED <<dashVars, classifyCall>>
  \/ (\E c \in Clients, outcome \in Outcomes : CreateReturns(c, outcome))
       /\ UNCHANGED <<dashVars, classifyCall>>
  \/ (\E c \in Clients, outcome \in Outcomes : ApplyReturns(c, outcome))
       /\ UNCHANGED <<dashVars, classifyCall>>

\* The edge function process serving the requests of two clients at once.
SpecServer == Init /\ [][ServerNext]_vars

ClassifyNext ==
  (\E text \in ReplyTexts : ClassifyEmail(text)) /\ UNCHANGED <<dashVars, srvVars>>

\* classifyEmail on the replies of ReplyTexts, one call after another.
SpecClassify == Init /\ [][ClassifyNext]_vars

\* -------------------------------------------- claims on the edge function

\* The request of client c has returned its Response.
Returned(c) == handler[c].pc = "idle" /\ response[c].status # 0

\* C2: within one run two resolutions of a label name return the same label
\* identifier, at most one create-label call is issued for the name, and none
\* when the provider already lists it.
C2_IdempotentResolution ==
  \A c \in Clients :
    /\ hist[c].createdAgain = {}
    /\ \A r1, r2 \in hist[c].resolved : r1.name = r2.name => r1.id = r2.id
    /\ handler[c].pc = "create" =>
         FindLabel(provLabels[handler[c].accessToken], LABEL_MAP(handler[c].label)) = 0

\* C3: two label resolutions for the same name that overlap in time are
\* serialized: the process never has two create-label calls for one name of
\* one account in flight.
C3_CreatesSerialized ==
  \A c1, c2 \in Clients :
    (c1 # c2 /\ handler[c1].pc = "create" /\ handler[c2].pc = "create"
       /\ handler[c1].accessToken = handler[c2].accessToken)
      => handler[c1].label # handler[c2].label

\* C4: the label cache does not persist across runs: the first label lookup
\* of every run issues a list-labels call, also when an earlier run was served
\* by the same process.
C4_FreshRunRefetches == \A c \in Clients : hist[c].firstLookup # "cached"

\* C5: within one run the list-labels call is issued at most once, also when
\* it fails.
C5_ListOncePerRun == \A c \in Clients : hist[c].listCalls <= 1

RECURSIVE IsSubSeq(_, _)
IsSubSeq(s, t) ==
  IF s = <<>> THEN TRUE
  ELSE IF t = <<>> THEN FALSE
  ELSE IF Head(s) = Head(t) THEN IsSubSeq(Tail(s), Tail(t))
  ELSE IsSubSeq(s, Tail(t))

EmailsOf(rs) == [i \in 1..Len(rs) |-> rs[i].email]

C7_HydrationFailureSkipped ==
  \A c \in Clients :
    (Returned(c) /\ hist[c].H > 0) =>
       /\ response[c].status = 200
       /\ response[c].total = Len(hist[c].listed) - hist[c].H
       /\ response[c].errors = hist[c].K
       /\ hist[c].attempted = hist[c].hydrated

\* Message m of account a carries a label with one of the managed names.
ManagedNames == { ToLowerCase(LabelNames[i]) : i \in 1..Len(LabelNames) }

HasManaged(a, m) ==
  \E k \in 1..Len(provLabels[a]) :
    /\ provLabels[a][k].id \in msgLabels[m]
    /\ ToLowerCase(provLabels[a][k].name) \in ManagedNames

InLoop(c) == handler[c].pc \in {"classify", "labels", "labelsReply", "create", "apply"}

\* C12: across batches and runs, a message to which a managed label was
\* applied is never returned by a later list call, so it is never classified
\* or labeled a second time; a run started when every in-scope message is
\* labeled does no classify and no apply call: every message of a listed page
\* that carries a managed label got it in this request, the message being
\* processed carries none, and an empty page is answered without any call.
\* (The provider evaluates -label:"<name>" by label name, ignoring case.)
C12_NeverRelabeled ==
  \A c \in Clients :
    /\ \A j \in 1..Len(handler[c].messages) :
         HasManaged(handler[c].accessToken, handler[c].messages[j]) =>
           \E r \in 1..Len(handler[c].results) :
             handler[c].results[r].email = handler[c].messages[j]
    /\ InLoop(c) => ~HasManaged(handler[c].accessToken, handler[c].emails[handler[c].i])
    /\ (Returned(c) /\ response[c].status = 200 /\ hist[c].listed = <<>>) =>
         (hist[c].attempted = <<>> /\ response[c].results = <<>>)

C12_Witness ==
  /\ Returned(1)
  /\ run[1].requests = 2
  /\ run[1].token = "U"
  /\ run[1].section = "all"
  /\ response[1].status = 200
  /\ response[1].total = 0
  /\ hist[1].listed = <<>>
  /\ \A m \in Mailbox("U") : HasManaged("U", m)

C17_Archived ==
  \A c \in Clients :
    (Returned(c) /\ response[c].status = 200) =>
       \A r \in 1..Len(response[c].results) :
         InboxId(Owner(response[c].results[r].email))
           \notin msgLabels[response[c].results[r].email]

\* The clauses of query q with operator op and argument arg.
Clauses(q, op, arg) == { k \in 1..Len(q) : q[k].op = op /\ q[k].arg = arg }

Mentions(q, arg) == \E k \in 1..Len(q) : q[k].arg = arg

\* C15: for scope inbox the query of the list call contains in:inbox, exactly
\* one -label:"<name>" clause for each of the 10 managed label names and no
\* clause on spam or trash; for scope all it contains -in:spam and -in:trash,
\* the same 10 exclusion clauses, and no clause on the inbox.
C15_QueryConstruction ==
  \A c \in Clients :
    handler[c].pc = "list" =>
      LET q == handler[c].url.q IN
        /\ Cardinality({ LABEL_MAP(x) : x \in Categories }) = 10
        /\ \A x \in Categories : Cardinality(Clauses(q, "-label", LABEL_MAP(x))) = 1
        /\ Cardinality({ k \in 1..Len(q) : q[k].op = "-label" }) = 10
        /\ run[c].section = "inbox" =>
             /\ Clauses(q, "in", <<"i", "n", "b", "o", "x">>) # {}
             /\ ~Mentions(q, <<"s", "p", "a", "m">>)
             /\ ~Mentions(q, <<"t", "r", "a", "s", "h">>)
             /\ Len(q) = 11
        /\ run[c].section = "all" =>
             /\ Clauses(q, "-in", <<"s", "p", "a", "m">>) # {}
             /\ Clauses(q, "-in", <<"t", "r", "a", "s", "h">>) # {}
             /\ ~Mentions(q, <<"i", "n", "b", "o", "x">>)
             /\ Len(q) = 12

C15_Witness ==
  /\ handler[1].pc = "list"
  /\ run[1].section = "inbox"
  /\ handler[1].url.pageToken = "A"
  /\ Clauses(handler[1].url.q, "-label", LABEL_MAP("COLD_EMAIL")) # {}

\* C16: when the access token is missing or the list call of fetchEmails
\* fails, the request returns an error payload with a non-success status and
\* makes no classify, create-label or apply-label call (those are made only
\* after a list call that succeeded); without the access token it makes no
\* provider call at all.
C16_ErrorPayload ==
  \A c \in Clients :
    /\ (Returned(c) /\ (~hist[c].credential \/ hist[c].listOutcome \in {"notok", "throws"})) =>
         /\ response[c].status = 400
         /\ DOMAIN response[c] = {"status", "error"}
         /\ response[c].error # ""
         /\ hist[c].attempted = <<>>
         /\ hist[c].hydrated = <<>>
         /\ hist[c].K = 0
    /\ ~hist[c].credential =>
         (handler[c].pc = "idle" /\ hist[c].listOutcome = "none" /\ hist[c] = [NoHist EXCEPT !.credential = FALSE])
    /\ handler[c].pc \notin {"idle", "list"} =>
         (hist[c].credential /\ hist[c].listOutcome = "ok")
    /\ hist[c].listOutcome \in {"notok", "throws"} => handler[c].pc = "idle"

C16_Witness ==
  /\ Returned(1)
  /\ run[1].requests = 2
  /\ hist[1].listOutcome = "throws"
  /\ hist[1].resolved # {}
  /\ response[1].status = 400

\* -------------------------------------------------- claims on classifyEmail

HasSpace(w) == \E i \in 1..Len(w) : w[i] = " "

\* C14: for a reply that, trimmed and in upper case, is none of the 10
\* category names (a sentence, a part of a name, a label name with a space,
\* the empty text, no text) classifyEmail returns FYI and raises no error; for
\* a reply that is one of the 10 names, in any case and with white space
\* around it, it returns that category.
C14_ClassifyFallback ==
  classifyCall.made =>
    LET x == classifyCall.input IN
      /\ classifyCall.returned \in Categories
      /\ x.kind \in {"key", "lower"} => classifyCall.returned = x.c
      /\ x.kind = "name" =>
           classifyCall.returned = IF HasSpace(LABEL_MAP(x.c)) THEN "FYI" ELSE x.c
      /\ x.kind \in {"partial", "prose", "empty", "missing"} => classifyCall.returned = "FYI"

C14_Witness ==
  /\ classifyCall.made
  /\ classifyCall.input.kind = "lower"
  /\ classifyCall.input.c = "COLD_EMAIL"
  /\ classifyCall.input.reply.text # ToLowerCase(KeyText("COLD_EMAIL"))
  /\ classifyCall.returned = "COLD_EMAIL"

\* C22: the label identifier resolved for a request and sent in its apply
\* call is the identifier of a label of the account whose credential the
\* request carries, also when the process has served another account before
\* and its labelCache is set.
C22_OwnAccountLabels ==
  \A c \in Clients :
     handler[c].pc = "apply" => handler[c].labelId \in LabelIds(handler[c].accessToken)

\* The results of the request of client c, so far or as returned.
ResultsSoFar(c) ==
  IF InLoop(c) THEN handler[c].results
  ELSE IF Returned(c) /\ response[c].status = 200 THEN response[c].results
  ELSE <<>>

\* Message m carries a label of account a with the name of category cat (the
\* provider tells label names apart ignoring case).
CarriesLabelOf(a, m, cat) ==
  \E k \in 1..Len(provLabels[a]) :
    /\ provLabels[a][k].id \in msgLabels[m]
    /\ ToLowerCase(provLabels[a][k].name) = ToLowerCase(LABEL_MAP(cat))

\* C23: the results of a batch are exactly the messages whose apply call
\* succeeded: every (message, category) in results carries provider-side the
\* label named LABEL_MAP[category], an attempted message that carries a
\* managed label is in results, the apply call is sent only after classify
\* returned the category and resolve the identifier, and no message counted
\* in errors is in results.
C23_ResultsAreApplied ==
  \A c \in Clients :
    LET rs == ResultsSoFar(c)
        a == run[c].token
        inResults == { rs[r].email : r \in 1..Len(rs) }
        inFailed == { hist[c].failed[j] : j \in 1..Len(hist[c].failed) }
    IN /\ \A r \in 1..Len(rs) :
            /\ rs[r].label \in Categories
            /\ CarriesLabelOf(a, rs[r].email, rs[r].label)
       /\ (InLoop(c) \/ Returned(c)) =>
            \A j \in 1..Len(hist[c].attempted) :
              HasManaged(a, hist[c].attempted[j]) => hist[c].attempted[j] \in inResults
       /\ Len(hist[c].failed) = hist[c].K
       /\ inFailed \cap inResults = {}
       /\ handler[c].pc = "classify" => handler[c].label = "" /\ handler[c].labelId = NoId
       /\ handler[c].pc \in {"labels", "labelsReply", "create"} =>
            handler[c].label \in Categories /\ handler[c].labelId = NoId
       /\ handler[c].pc = "apply" =>
            /\ handler[c].label \in Categories
            /\ [name |-> LABEL_MAP(handler[c].label), id |-> handler[c].labelId]
                 \in hist[c].resolved
            /\ handler[c].emails[handler[c].i] \notin inResults \cup inFailed

====
